---- MODULE Spec2Model ----
(***************************************************************************)
(* A model of the chess board of jessethegame/chess: one goroutine per     *)
(* piece (spawnPiece), one relay goroutine per piece (started by           *)
(* addPiece), one board coordinator (runBoard), and the client code that   *)
(* drives them (addPiece, clearBoard, main).  All channels of the program  *)
(* are unbuffered, so every send is a rendezvous: one action of the model  *)
(* moves the sender past its send and the receiver past its receive.       *)
(***************************************************************************)
EXTENDS Integers, Sequences, FiniteSets, Bags, TLC

(* ------------------------------ bounds -------------------------------- *)
\* Number of piece goroutines the client may start.
MaxPieces == 2
\* Number of operations the client issues.
MaxOps == 4
\* Files of the squares the client uses: 0..MaxFile.
MaxFile == 2

(* ------------------------- program constants -------------------------- *)
PAWN == 0
BLACK == 0
WHITE == 1
\* addPawn: the rank index of a white pawn and of a black pawn.
PawnRank == 1
BlackPawnRank == 6
\* The nil channel / the absent map entry.
Nil == 0
\* 'A', 'G', '1', '8' as runes.
RuneA == 65
RuneG == 71
Rune1 == 49
Rune8 == 56
\* Largest file and rank index of a legal coordinate.
MaxIndex == 7

(* ---------------------------- data model ------------------------------ *)
\* type coords struct{ x, y int }, restricted to the legal range 0..7.
AllCoords == [x : 0..MaxIndex, y : 0..MaxIndex]

\* The squares the client names in its operations: the first files of the
\* rank of the white pawns.
Squares == {c \in AllCoords : c.x \in 0..MaxFile /\ c.y = PawnRank}

\* The zero value of coords, a piece's position before any popSetCoords.
ZeroCoords == [x |-> 0, y |-> 0]

\* type pieceType struct{ t, c }
WhitePawn == [t |-> PAWN, c |-> WHITE]
ZeroType == [t |-> PAWN, c |-> BLACK]

\* The colors of the pawns the client adds: those of the rank of Squares.
Colors == {WHITE}

\* Piece handles (chan<- pop); handle h also names the coordUpdates channel
\* that addPiece creates for piece h.
Handles == 1..MaxPieces

\* One more chan coords, made by the client and read by the client itself.
Spare == MaxPieces + 1

\* func (c coords) String(): "%c%d" of "ABCDEFGH"[c.x] and c.y+1, as a
\* sequence of runes; out-of-range coordinates panic (<<-1>>: no string).
String(c) ==
  IF c.x < 0 \/ MaxIndex < c.x \/ c.y < 0 \/ MaxIndex < c.y
  THEN <<-1>>
  ELSE <<RuneA + c.x, Rune1 + c.y>>

\* state.ReadRune(): the i-th rune of the input, 0 at end of input.
ReadRune(s, i) == IF i <= Len(s) THEN s[i] ELSE 0

\* func (c *coords) Scan: reads two runes; an error unless the first is
\* within 'A'..'G' and the second within '1'..'8'.
Scan(s) ==
  LET rx == ReadRune(s, 1)
      ry == ReadRune(s, 2)
  IN IF rx < RuneA \/ RuneG < rx \/ ry < Rune1 \/ Rune8 < ry
     THEN [err |-> TRUE, c |-> ZeroCoords]
     ELSE [err |-> FALSE, c |-> [x |-> rx - RuneA, y |-> ry - Rune1]]

(* ------------------------------ state --------------------------------- *)
VARIABLES
  pieces,     \* runBoard: pieces map[coords]piece (Nil: no entry)
  bpc,        \* runBoard: where the coordinator stands
  bmsg,       \* runBoard: the operation being processed
  iter,       \* runBoard: coordinates the range loop of bopGetAllPieces still visits
  enumSnap,   \* history: the mapping when the bopGetAllPieces in progress was dequeued
  piece,      \* spawnPiece: per piece, its position pc and its locals xy, pt, movechan
  rpc,        \* relay goroutine of addPiece: where it stands
  rxy,        \* relay goroutine: the xy it is forwarding
  cl,         \* the client: position and locals of addPiece / clearBoard
  nOps,       \* number of operations the client has issued
  rt,         \* a coordinate pair on its way through String and parseMoveOp
  boardc,     \* the coordinator's mailbox (main: boardc): "open" or "closed"
  done,       \* runBoard: the number of times close(done) has run
  last,       \* history: per piece, the last popSetCoords and popSetType sent to it
  owed,       \* history: per piece, the notification its last popSetCoords calls for
  pending     \* history: per coordUpdates channel, notifications sent on it that
              \* the coordinator has not received yet

vars == <<pieces, bpc, bmsg, iter, enumSnap, piece, rpc, rxy, cl, nOps, rt,
          boardc, done, last, owed, pending>>

boardVars == <<pieces, bpc, bmsg, iter, enumSnap>>
relayVars == <<rpc, rxy>>
chanVars == <<boardc, done>>
histVars == <<last, owed, pending>>

EmptyBoard == [c \in Squares |-> Nil]
NoMsg == [op |-> "none"]
Idle == [pc |-> "idle"]
NoRoundTrip == [pc |-> "none"]
\* No notification is owed.
NoNotification == [ch |-> Nil, xy |-> ZeroCoords]

\* spawnPiece's locals at its start: var x, y int; var movechan; var pt.
Fresh == [pc |-> "recv", xy |-> ZeroCoords, pt |-> ZeroType, movechan |-> Nil]

\* A piece goroutine not started yet.
Unborn == [Fresh EXCEPT !.pc = "unborn"]

Init ==
  /\ pieces = EmptyBoard
  /\ bpc = "recv"
  /\ bmsg = NoMsg
  /\ iter = {}
  /\ enumSnap = EmptyBoard
  /\ piece = [h \in Handles |-> Unborn]
  /\ rpc = [h \in Handles |-> "none"]
  /\ rxy = [h \in Handles |-> ZeroCoords]
  /\ cl = Idle
  /\ nOps = 0
  /\ rt = NoRoundTrip
  /\ boardc = "open"
  /\ done = 0
  /\ last = [h \in Handles |-> [xy |-> ZeroCoords, pt |-> ZeroType]]
  /\ owed = [h \in Handles |-> NoNotification]
  /\ pending = [h \in Handles |-> <<>>]

(* ------------------------- the piece goroutine ------------------------ *)
\* Messages of a piece's mailbox (type pop) and of the board's (type bop).
popSetCoords(c) == [op |-> "popSetCoords", xy |-> c]
popSetType(t) == [op |-> "popSetType", pt |-> t]
popMoveCallback(ch) == [op |-> "popMoveCallback", ch |-> ch]
popGetCoords == [op |-> "popGetCoords"]
popGetType == [op |-> "popGetType"]
popKill == [op |-> "popKill"]
bopNewPiece(c, h) == [op |-> "bopNewPiece", coords |-> c, ctrl |-> h]
bopMovePiece(f, t) == [op |-> "bopMovePiece", from |-> f, to |-> t]
bopGetAllPieces == [op |-> "bopGetAllPieces"]
bopDelPiece(h) == [op |-> "bopDelPiece", ctrl |-> h]

\* A panic in any goroutine ends the process.
Running ==
  /\ bpc # "panic"
  /\ cl.pc # "panic"
  /\ \A h \in Handles : rpc[h] # "panic"

\* A piece that sends a notification whether or not it has a subscriber.
spawnPieceAlwaysNotifies(st, op) ==
  CASE op.op = "popSetCoords" -> [st EXCEPT !.xy = op.xy, !.pc = "notify"]
    [] op.op = "popGetCoords" -> [st EXCEPT !.pc = "replyCoords"]
    [] op.op = "popKill" -> [st EXCEPT !.pc = "defer"]
    [] op.op = "popMoveCallback" -> [st EXCEPT !.movechan = op.ch]
    [] op.op = "popSetType" -> [st EXCEPT !.pt = op.pt]
    [] op.op = "popGetType" -> [st EXCEPT !.pc = "replyType"]

\* A piece that answers popSetCoords without storing the coordinate.
spawnPieceKeepsCoords(st, op) ==
  CASE op.op = "popSetCoords" ->
         [st EXCEPT !.pc = IF st.movechan # Nil THEN "notify" ELSE "recv"]
    [] op.op = "popGetCoords" -> [st EXCEPT !.pc = "replyCoords"]
    [] op.op = "popKill" -> [st EXCEPT !.pc = "defer"]
    [] op.op = "popMoveCallback" -> [st EXCEPT !.movechan = op.ch]
    [] op.op = "popSetType" -> [st EXCEPT !.pt = op.pt]
    [] op.op = "popGetType" -> [st EXCEPT !.pc = "replyType"]

\* spawnPiece: the body of the switch for op, up to the first point where the
\* piece blocks again; st is the piece's state at "for op := range c".
spawnPiece(st, op) ==
  CASE op.op = "popSetCoords" ->
         [st EXCEPT !.xy = op.xy,
                    !.pc = IF st.movechan # Nil THEN "notify" ELSE "recv"]
    [] op.op = "popGetCoords" -> [st EXCEPT !.pc = "replyCoords"]
    [] op.op = "popKill" ->
         \* close(t); return: the deferred function has yet to run
         [st EXCEPT !.pc = "defer"]
    [] op.op = "popMoveCallback" -> [st EXCEPT !.movechan = op.ch]
    [] op.op = "popSetType" -> [st EXCEPT !.pt = op.pt]
    [] op.op = "popGetType" -> [st EXCEPT !.pc = "replyType"]

\* What has been sent to a piece so far: l after one more message op.
Received(l, op) ==
  CASE op.op = "popSetCoords" -> [l EXCEPT !.xy = op.xy]
    [] op.op = "popSetType" -> [l EXCEPT !.pt = op.pt]
    [] OTHER -> l

\* The notification that a message calls for: a popSetCoords taken while the
\* subscriber sub is registered calls for its coordinate to go to sub.
Owes(o, sub, op) ==
  IF op.op = "popSetCoords" /\ sub # Nil THEN [ch |-> sub, xy |-> op.xy] ELSE o

\* Piece h receives op from its mailbox c (an unbuffered channel: the sender
\* gets past its send in the same step).
PieceRecv(h, op) ==
  /\ piece[h].pc = "recv"
  /\ piece' = [piece EXCEPT ![h] = spawnPiece(piece[h], op)]
  /\ last' = [last EXCEPT ![h] = Received(last[h], op)]
  /\ owed' = [owed EXCEPT ![h] = Owes(owed[h], piece[h].movechan, op)]

\* A coordUpdates channel is closed once the piece that holds it as its
\* movechan has run its deferred function.
Closed(ch) ==
  /\ ch # Nil
  /\ \E h \in Handles : piece[h].pc = "dead" /\ piece[h].movechan = ch

\* spawnPiece, the deferred function: close(movechan) if it is not nil; the
\* goroutine and its locals x, y, pt are gone.  (No two pieces hold the same
\* movechan, so the channel is not closed twice.)
PieceDefer(h) ==
  /\ Running
  /\ piece[h].pc = "defer"
  /\ piece' = [piece EXCEPT ![h] = [Fresh EXCEPT !.pc = "dead",
                                                 !.movechan = piece[h].movechan]]
  /\ last' = [last EXCEPT ![h] = [xy |-> ZeroCoords, pt |-> ZeroType]]
  /\ UNCHANGED <<boardVars, relayVars, cl, nOps, rt, chanVars, owed, pending>>

(* ------------------------- the relay goroutine ------------------------ *)
\* for xy := range coordUpdates: the relay of channel ch takes the coordinate
\* that piece h is sending on its movechan.
RelayRecv(h, ch) ==
  /\ Running
  /\ piece[h].pc = "notify"
  /\ piece[h].movechan = ch
  /\ rpc[ch] = "recv"
  /\ ~Closed(ch)
  /\ rpc' = [rpc EXCEPT ![ch] = "send"]
  /\ rxy' = [rxy EXCEPT ![ch] = piece[h].xy]
  /\ piece' = [piece EXCEPT ![h].pc = "recv"]
  /\ pending' = [pending EXCEPT ![ch] = Append(pending[ch], piece[h].xy)]
  /\ owed' = [owed EXCEPT ![h] = NoNotification]
  /\ UNCHANGED <<boardVars, cl, nOps, rt, chanVars, last>>

\* The range loop ends when coordUpdates is closed.
RelayExit(ch) ==
  /\ Running
  /\ rpc[ch] = "recv"
  /\ Closed(ch)
  /\ rpc' = [rpc EXCEPT ![ch] = "exit"]
  /\ UNCHANGED <<rxy, piece, boardVars, cl, nOps, rt, chanVars, histVars>>

(* ------------------------ the board coordinator ----------------------- *)
Occupied(m) == {c \in DOMAIN m : m[c] # Nil}

\* pieces[c] = p
SetEntry(m, c, p) == [m EXCEPT ![c] = p]

\* A delete that removes nothing.
DeleteNothing(m, c) == m

\* delete(pieces, c): nothing happens when c is no key.
DeleteEntry(m, c) == [k \in DOMAIN m |-> IF k = c THEN Nil ELSE m[k]]

\* The guard of the panic with its test inverted.
NewPieceExistsInverted(m, c) == m[c] = Nil

\* case bopNewPiece: the guard of the panic.
NewPieceExists(m, c) == m[c] # Nil

\* case bopMovePiece: the guard of the panic.
MoveFromMissing(m, from) == m[from] = Nil

\* A move that forgets delete(pieces, t.from).
MoveEntryKeepsFrom(m, from, to) == SetEntry(m, to, m[from])

\* case bopMovePiece: delete(pieces, t.from); pieces[t.to] = p
MoveEntry(m, from, to) == SetEntry(DeleteEntry(m, from), to, m[from])

\* A loop that visits each piece once, at the first of its squares.
EnumRangeOnePerPiece(m) ==
  {c \in Occupied(m) : \A d \in Occupied(m) : m[d] = m[c] => c.x <= d.x}

\* case bopGetAllPieces: the entries that "for _, p := range pieces" visits.
EnumRange(m) == Occupied(m)

\* A relay that forwards the file of the first square whatever it received.
relayUpdateFirstFile(xy, c) == bopNewPiece([xy EXCEPT !.x = 0], c)

\* The message of the relay of piece c for the coordinate xy:
\* bopNewPiece{xy, c}
relayUpdate(xy, c) == bopNewPiece(xy, c)

\* runBoard takes o from its mailbox: the case of the switch up to the first
\* point where the coordinator blocks.
runBoard(o) ==
  /\ bpc = "recv"
  /\ boardc = "open"
  /\ CASE o.op = "bopNewPiece" ->
            IF NewPieceExists(pieces, o.coords)
            THEN /\ bpc' = "panic"
                 /\ bmsg' = o
                 /\ UNCHANGED <<pieces, iter, enumSnap>>
            ELSE /\ pieces' = SetEntry(pieces, o.coords, o.ctrl)
                 /\ bpc' = "new_getType"
                 /\ bmsg' = o
                 /\ UNCHANGED <<iter, enumSnap>>
       [] o.op = "bopMovePiece" ->
            IF MoveFromMissing(pieces, o.from)
            THEN /\ bpc' = "panic"
                 /\ bmsg' = o
                 /\ UNCHANGED <<pieces, iter, enumSnap>>
            ELSE /\ pieces' = MoveEntry(pieces, o.from, o.to)
                 /\ bpc' = "move_getType"
                 /\ bmsg' = [op |-> "bopMovePiece", from |-> o.from, to |-> o.to,
                             ctrl |-> pieces[o.from]]
                 /\ UNCHANGED <<iter, enumSnap>>
       [] o.op = "bopGetAllPieces" ->
            /\ iter' = EnumRange(pieces)
            /\ enumSnap' = pieces
            /\ bpc' = "enum"
            /\ bmsg' = o
            /\ UNCHANGED pieces
       [] o.op = "bopDelPiece" ->
            /\ bpc' = "del_getCoords"
            /\ bmsg' = o
            /\ UNCHANGED <<pieces, iter, enumSnap>>

\* t.ctrl <- popGetType(pc) / p <- popGetType(pc)
BoardAskType ==
  /\ Running
  /\ bpc \in {"new_getType", "move_getType"}
  /\ PieceRecv(bmsg.ctrl, popGetType)
  /\ bpc' = IF bpc = "new_getType" THEN "new_type" ELSE "move_type"
  /\ UNCHANGED <<pieces, bmsg, iter, enumSnap, relayVars, cl, nOps, rt, chanVars, pending>>

\* The piece answers t <- pt; close(t); runBoard prints its line and loops.
PieceReplyType(h) ==
  /\ Running
  /\ piece[h].pc = "replyType"
  /\ bpc \in {"new_type", "move_type"}
  /\ bmsg.ctrl = h
  /\ piece' = [piece EXCEPT ![h].pc = "recv"]
  /\ bpc' = "recv"
  /\ bmsg' = NoMsg
  /\ UNCHANGED <<pieces, iter, enumSnap, relayVars, cl, nOps, rt, chanVars, histVars>>

\* case bopDelPiece: t <- popGetCoords(cc)
BoardAskCoords ==
  /\ Running
  /\ bpc = "del_getCoords"
  /\ PieceRecv(bmsg.ctrl, popGetCoords)
  /\ bpc' = "del_coords"
  /\ UNCHANGED <<pieces, bmsg, iter, enumSnap, relayVars, cl, nOps, rt, chanVars, pending>>

\* The piece answers t <- coords{x, y}; close(t): coords := <-cc
PieceReplyCoords(h) ==
  /\ Running
  /\ piece[h].pc = "replyCoords"
  /\ bpc = "del_coords"
  /\ bmsg.ctrl = h
  /\ piece' = [piece EXCEPT ![h].pc = "recv"]
  /\ bmsg' = [op |-> "bopDelPiece", ctrl |-> h, coords |-> piece[h].xy]
  /\ bpc' = "del_kill"
  /\ UNCHANGED <<pieces, iter, enumSnap, relayVars, cl, nOps, rt, chanVars, histVars>>

\* case bopDelPiece: t <- popKill(donec)
BoardKill ==
  /\ Running
  /\ bpc = "del_kill"
  /\ PieceRecv(bmsg.ctrl, popKill)
  /\ bpc' = "del_ack"
  /\ UNCHANGED <<pieces, bmsg, iter, enumSnap, relayVars, cl, nOps, rt, chanVars, pending>>

\* A deletion that does not send popKill first.
BoardDeleteBeforeKill ==
  /\ Running
  /\ bpc = "del_kill"
  /\ pieces' = DeleteEntry(pieces, bmsg.coords)
  /\ bpc' = "recv"
  /\ bmsg' = NoMsg
  /\ UNCHANGED <<iter, enumSnap, piece, relayVars, cl, nOps, rt, chanVars, histVars>>

\* case bopDelPiece: <-donec; delete(pieces, coords); the line is printed.
BoardDelete ==
  /\ Running
  /\ bpc = "del_ack"
  /\ piece[bmsg.ctrl].pc \in {"defer", "dead"}
  /\ pieces' = DeleteEntry(pieces, bmsg.coords)
  /\ bpc' = "recv"
  /\ bmsg' = NoMsg
  /\ UNCHANGED <<iter, enumSnap, piece, relayVars, cl, nOps, rt, chanVars, histVars>>

\* The client stands in a loop "for p := range piecesc".
Receiving == cl.pc \in {"clear_recv", "enum_recv"}

\* case bopGetAllPieces: t <- p for one more entry of the map, received by
\* the range loop of the client.
BoardEnumSend(c) ==
  /\ Running
  /\ bpc = "enum"
  /\ c \in iter
  /\ Receiving
  /\ iter' = iter \ {c}
  /\ cl' = [cl EXCEPT !.got = Append(cl.got, pieces[c])]
  /\ UNCHANGED <<pieces, bpc, bmsg, enumSnap, piece, relayVars, nOps, rt, chanVars, histVars>>

\* case bopGetAllPieces: close(t) after the loop.
BoardEnumClose ==
  /\ Running
  /\ bpc = "enum"
  /\ iter = {}
  /\ Receiving
  /\ bpc' = "recv"
  /\ bmsg' = NoMsg
  /\ cl' = [cl EXCEPT !.closed = TRUE]
  /\ UNCHANGED <<pieces, iter, enumSnap, piece, relayVars, nOps, rt, chanVars, histVars>>

\* The relay of channel ch hands its update to the board:
\* b <- bopNewPiece{xy, c}
RelaySend(ch) ==
  /\ Running
  /\ rpc[ch] = "send"
  /\ runBoard(relayUpdate(rxy[ch], ch))
  /\ rpc' = [rpc EXCEPT ![ch] = "recv"]
  /\ rxy' = [rxy EXCEPT ![ch] = ZeroCoords]
  /\ pending' = [pending EXCEPT ![ch] = Tail(pending[ch])]
  /\ UNCHANGED <<piece, cl, nOps, rt, chanVars, last, owed>>

\* b <- bopNewPiece{xy, c} after the mailbox has been closed panics.
RelaySendClosed(ch) ==
  /\ Running
  /\ rpc[ch] = "send"
  /\ boardc = "closed"
  /\ rpc' = [rpc EXCEPT ![ch] = "panic"]
  /\ UNCHANGED <<rxy, piece, boardVars, cl, nOps, rt, chanVars, histVars>>

(* ----------------------------- the client ----------------------------- *)
\* The handles addPiece has returned to the client.
Returned == {h \in Handles : rpc[h] # "none"}

\* A piece goroutine that has not received popKill.
Live(h) == piece[h].pc \notin {"unborn", "defer", "dead"}

\* addPawn: the rank follows from the color; the type is a pawn of that color.
addPawn(x, color) ==
  [xy |-> [x |-> x, y |-> IF color = WHITE THEN PawnRank ELSE BlackPawnRank],
   pt |-> [t |-> PAWN, c |-> color]]

\* addPiece: c := make(chan pop); go spawnPiece(c); c <- popSetType(pt);
\* c <- popSetCoords{x, y}.  Nobody else holds c yet, and the piece has no
\* movechan: the two sends meet the new piece at its receive.
ClientAddPiece(xy, pt) ==
  /\ Running
  /\ cl.pc = "idle"
  /\ nOps < MaxOps
  /\ \E h \in Handles :
       /\ piece[h].pc = "unborn"
       /\ \A g \in Handles : g < h => piece[g].pc # "unborn"
       /\ piece' = [piece EXCEPT ![h] =
                      spawnPiece(spawnPiece(Fresh, popSetType(pt)), popSetCoords(xy))]
       /\ cl' = [pc |-> "add_newPiece", h |-> h, xy |-> xy]
       /\ last' = [last EXCEPT ![h] =
                     Received(Received(last[h], popSetType(pt)), popSetCoords(xy))]
  /\ nOps' = nOps + 1
  /\ rt' = rt
  /\ UNCHANGED <<chanVars, owed, pending>>
  /\ UNCHANGED <<boardVars, relayVars>>

\* addPiece: b <- bopNewPiece{coords: coords{x, y}, ctrl: c}
AddNewPiece ==
  /\ Running
  /\ cl.pc = "add_newPiece"
  /\ runBoard(bopNewPiece(cl.xy, cl.h))
  /\ cl' = [cl EXCEPT !.pc = "add_callback"]
  /\ UNCHANGED <<piece, relayVars, nOps, rt, chanVars, histVars>>

\* addPiece: c <- popMoveCallback(coordUpdates); go func() {...}(); return c
AddCallback ==
  /\ Running
  /\ cl.pc = "add_callback"
  /\ PieceRecv(cl.h, popMoveCallback(cl.h))
  /\ rpc' = [rpc EXCEPT ![cl.h] = "recv"]
  /\ cl' = Idle
  /\ UNCHANGED <<rxy, boardVars, nOps, rt, chanVars, pending>>

\* The client moves a piece it holds: p <- popSetCoords{x, y}
ClientSetCoords(h, xy) ==
  /\ Running
  /\ cl.pc = "idle"
  /\ nOps < MaxOps
  /\ h \in Returned
  /\ PieceRecv(h, popSetCoords(xy))
  /\ nOps' = nOps + 1
  /\ rt' = rt
  /\ UNCHANGED <<chanVars, pending>>
  /\ UNCHANGED <<boardVars, relayVars, cl>>

\* parseMoveOp: both coordinates are scanned; the first error is returned.
parseMoveOp(from, to) ==
  LET f == Scan(from)
      t == Scan(to)
  IN IF f.err THEN [err |-> TRUE, op |-> bopMovePiece(ZeroCoords, ZeroCoords)]
     ELSE [err |-> t.err, op |-> bopMovePiece(f.c, t.c)]

\* main: op, err := parseMoveOp(from, to); panic on err; boardc <- op
ClientMove(from, to) ==
  /\ Running
  /\ cl.pc = "idle"
  /\ nOps < MaxOps
  /\ LET r == parseMoveOp(String(from), String(to))
     IN IF r.err
        THEN /\ cl' = [pc |-> "panic"]
             /\ UNCHANGED boardVars
        ELSE /\ runBoard(r.op)
             /\ UNCHANGED cl
  /\ nOps' = nOps + 1
  /\ rt' = rt
  /\ UNCHANGED <<chanVars, histVars>>
  /\ UNCHANGED <<piece, relayVars>>

\* The client removes a piece it holds: b <- bopDelPiece(p)
ClientDelPiece(h) ==
  /\ Running
  /\ cl.pc = "idle"
  /\ nOps < MaxOps
  /\ h \in Returned
  /\ Live(h)
  /\ runBoard(bopDelPiece(h))
  /\ nOps' = nOps + 1
  /\ rt' = rt
  /\ UNCHANGED <<chanVars, histVars>>
  /\ UNCHANGED <<piece, relayVars, cl>>

\* clearBoard: piecesc := make(chan piece); b <- bopGetAllPieces(piecesc);
\* ret is where the client stands once clearBoard has returned.
ClientClearBoard(ret) ==
  /\ Running
  /\ cl.pc = "idle"
  /\ nOps < MaxOps
  /\ runBoard(bopGetAllPieces)
  /\ cl' = [pc |-> "clear_recv", got |-> <<>>, closed |-> FALSE, ret |-> ret]
  /\ nOps' = nOps + 1
  /\ rt' = rt
  /\ UNCHANGED <<chanVars, histVars>>
  /\ UNCHANGED <<piece, relayVars>>

\* clearBoard: the range loop over piecesc ends when the channel is closed.
ClearRecvDone ==
  /\ Running
  /\ cl.pc = "clear_recv"
  /\ cl.closed
  /\ cl' = IF cl.got = <<>> THEN [pc |-> cl.ret]
           ELSE [pc |-> "clear_del", got |-> cl.got, ret |-> cl.ret]
  /\ enumSnap' = EmptyBoard
  /\ UNCHANGED <<pieces, bpc, bmsg, iter, piece, relayVars, nOps, rt, chanVars, histVars>>

\* clearBoard: b <- bopDelPiece(p) for the next p of pieces.
ClearDel ==
  /\ Running
  /\ cl.pc = "clear_del"
  /\ runBoard(bopDelPiece(Head(cl.got)))
  /\ cl' = IF Len(cl.got) = 1 THEN [pc |-> cl.ret] ELSE [cl EXCEPT !.got = Tail(cl.got)]
  /\ UNCHANGED <<piece, relayVars, nOps, rt, chanVars, histVars>>

\* A client that enumerates the board after its clearBoard has returned:
\* b <- bopGetAllPieces(piecesc)
ClientEnumerate ==
  /\ Running
  /\ cl.pc = "cleared"
  /\ nOps < MaxOps
  /\ runBoard(bopGetAllPieces)
  /\ cl' = [pc |-> "enum_recv", got |-> <<>>, closed |-> FALSE]
  /\ nOps' = nOps + 1
  /\ rt' = rt
  /\ UNCHANGED <<chanVars, histVars>>
  /\ UNCHANGED <<piece, relayVars>>

\* The client's range loop over piecesc ends when the channel is closed.
EnumRecvDone ==
  /\ Running
  /\ cl.pc = "enum_recv"
  /\ cl.closed
  /\ cl' = [pc |-> "enumerated", got |-> cl.got]
  /\ enumSnap' = EmptyBoard
  /\ UNCHANGED <<pieces, bpc, bmsg, iter, piece, relayVars, nOps, rt, chanVars, histVars>>

(* --------------------- changing the subscriber ------------------------ *)
\* The client registers another subscriber with a piece it holds, or none:
\* p <- popMoveCallback(ch), where ch is nil, the coordUpdates channel of
\* p's own relay, or the client's own channel, which it gives to one piece
\* at most.
ClientMoveCallback(h, ch) ==
  /\ Running
  /\ cl.pc = "idle"
  /\ nOps < MaxOps
  /\ h \in Returned
  /\ ch \in {Nil, h, Spare}
  /\ ch = Spare => \A g \in Handles \ {h} : piece[g].movechan # Spare
  /\ PieceRecv(h, popMoveCallback(ch))
  /\ nOps' = nOps + 1
  /\ UNCHANGED <<boardVars, relayVars, cl, rt, chanVars, pending>>

\* The client takes the coordinate that piece h is sending on the client's
\* own channel.
ClientRecvSpare(h) ==
  /\ Running
  /\ cl.pc = "idle"
  /\ piece[h].pc = "notify"
  /\ piece[h].movechan = Spare
  /\ ~Closed(Spare)
  /\ piece' = [piece EXCEPT ![h].pc = "recv"]
  /\ owed' = [owed EXCEPT ![h] = NoNotification]
  /\ UNCHANGED <<boardVars, relayVars, cl, nOps, rt, chanVars, last, pending>>

(* ------------------------ closing the mailbox ------------------------- *)
\* The client closes the coordinator's mailbox: close(boardc)
ClientCloseBoard ==
  /\ Running
  /\ cl.pc = "idle"
  /\ nOps < MaxOps
  /\ boardc = "open"
  /\ boardc' = "closed"
  /\ nOps' = nOps + 1
  /\ UNCHANGED <<boardVars, piece, relayVars, cl, rt, done, histVars>>

\* A send of the client on the closed mailbox panics.
ClientSendClosed ==
  /\ Running
  /\ boardc = "closed"
  /\ \/ cl.pc \in {"add_newPiece", "clear_del"}
     \/ cl.pc = "idle" /\ nOps < MaxOps
  /\ cl' = [pc |-> "panic"]
  /\ UNCHANGED <<boardVars, piece, relayVars, nOps, rt, chanVars, histVars>>

\* A loop that ends as soon as the coordinator is back at its mailbox.
MailboxDrainedEarly(b, pc) == pc = "recv"

\* "for o := range c" ends: the coordinator stands at its mailbox, and the
\* mailbox is closed (an unbuffered channel holds no message).
MailboxDrained(b, pc) == b = "closed" /\ pc = "recv"

\* runBoard: after the loop, close(done); the goroutine ends.
BoardDone ==
  /\ Running
  /\ MailboxDrained(boardc, bpc)
  /\ bpc' = "exit"
  /\ done' = done + 1
  /\ UNCHANGED <<pieces, bmsg, iter, enumSnap, piece, relayVars, cl, nOps, rt,
                 boardc, histVars>>

(* ------------------- formatting and parsing coordinates --------------- *)
\* fmt.Sprintf("%s", c) for the two coordinates of a move.
FormatPair ==
  /\ rt.pc = "coords"
  /\ rt' = [pc |-> "text", from |-> rt.from, to |-> rt.to,
            sfrom |-> String(rt.from), sto |-> String(rt.to)]
  /\ UNCHANGED <<boardVars, piece, relayVars, cl, nOps, chanVars, histVars>>

\* parseMoveOp(from, to) on the two texts.
ParsePair ==
  /\ rt.pc = "text"
  /\ rt' = [pc |-> "parsed", from |-> rt.from, to |-> rt.to,
            res |-> parseMoveOp(rt.sfrom, rt.sto)]
  /\ UNCHANGED <<boardVars, piece, relayVars, cl, nOps, chanVars, histVars>>

(* -------------------------- the specification ------------------------- *)
PieceStep ==
  \/ \E h \in Handles : PieceDefer(h)
  \/ \E h \in Handles : PieceReplyType(h)
  \/ \E h \in Handles : PieceReplyCoords(h)

RelayStep ==
  \/ \E h \in Handles, ch \in Handles : RelayRecv(h, ch)
  \/ \E ch \in Handles : RelaySend(ch)
  \/ \E ch \in Handles : RelayExit(ch)

BoardStep ==
  \/ BoardAskType
  \/ BoardAskCoords
  \/ BoardKill
  \/ BoardDelete
  \/ \E c \in Squares : BoardEnumSend(c)
  \/ BoardEnumClose

AddPieceStep ==
  \/ \E x \in 0..MaxFile, color \in Colors :
        ClientAddPiece(addPawn(x, color).xy, addPawn(x, color).pt)
  \/ AddNewPiece
  \/ AddCallback

ClearBoardStep ==
  \/ ClientClearBoard("idle")
  \/ ClearRecvDone
  \/ ClearDel

Next ==
  \/ PieceStep
  \/ RelayStep
  \/ BoardStep
  \/ AddPieceStep
  \/ \E h \in Handles, xy \in Squares : ClientSetCoords(h, xy)
  \/ \E from \in Squares, to \in Squares : ClientMove(from, to)
  \/ \E h \in Handles : ClientDelPiece(h)
  \/ ClearBoardStep

Spec == Init /\ [][Next]_vars

\* Some goroutine that can take a step eventually takes one, and a relay
\* waiting to send is served when the coordinator keeps coming back to its
\* mailbox (a channel's blocked senders are served in order of arrival).
FairSpec ==
  /\ Spec
  /\ WF_vars(Next)
  /\ \A ch \in Handles : SF_vars(RelaySend(ch))

\* The program with a client that may change the subscriber of a piece.
NextSubscribe ==
  \/ Next
  \/ \E h \in Handles, ch \in {Nil, Spare} \cup Handles : ClientMoveCallback(h, ch)
  \/ \E h \in Handles : ClientRecvSpare(h)

SpecSubscribe == Init /\ [][NextSubscribe]_vars

\* The program with a client that may close the mailbox of the coordinator.
NextTeardown ==
  \/ Next
  \/ ClientCloseBoard
  \/ ClientSendClosed
  \/ BoardDone
  \/ \E ch \in Handles : RelaySendClosed(ch)

SpecTeardown == Init /\ [][NextTeardown]_vars

\* A goroutine that can take a step eventually takes one; the coordinator in
\* particular leaves its loop once its mailbox is closed.
FairTeardown ==
  /\ SpecTeardown
  /\ WF_vars(NextTeardown)
  /\ WF_vars(BoardDone)

\* main of chess.go: initBoard, with pawns registered on distinct squares,
\* then clearBoard; afterwards the client enumerates the board.
NextInitClear ==
  \/ PieceStep
  \/ \E ch \in Handles : RelayExit(ch)
  \/ BoardStep
  \/ \E x \in 0..MaxFile, color \in Colors :
        /\ ~NewPieceExists(pieces, addPawn(x, color).xy)
        /\ ClientAddPiece(addPawn(x, color).xy, addPawn(x, color).pt)
  \/ AddNewPiece
  \/ AddCallback
  \/ ClientClearBoard("cleared")
  \/ ClearRecvDone
  \/ ClearDel
  \/ ClientEnumerate
  \/ EnumRecvDone

SpecInitClear == Init /\ [][NextInitClear]_vars

\* Every pair of legal coordinates, formatted and parsed again.
InitCoords ==
  /\ pieces = EmptyBoard
  /\ bpc = "recv"
  /\ bmsg = NoMsg
  /\ iter = {}
  /\ enumSnap = EmptyBoard
  /\ piece = [h \in Handles |-> Unborn]
  /\ rpc = [h \in Handles |-> "none"]
  /\ rxy = [h \in Handles |-> ZeroCoords]
  /\ cl = Idle
  /\ nOps = 0
  /\ rt \in {[pc |-> "coords", from |-> f, to |-> t] : f \in AllCoords, t \in AllCoords}
  /\ boardc = "open"
  /\ done = 0
  /\ last = [h \in Handles |-> [xy |-> ZeroCoords, pt |-> ZeroType]]
  /\ owed = [h \in Handles |-> NoNotification]
  /\ pending = [h \in Handles |-> <<>>]

NextCoords == FormatPair \/ ParsePair

SpecCoords == InitCoords /\ [][NextCoords]_vars

(* ------------------------------ the claims ---------------------------- *)
\* The step in which runBoard takes an operation of the given kind from its
\* mailbox (bmsg' is that operation).
Dequeues(kind) == bpc = "recv" /\ bpc' # "recv" /\ bmsg'.op = kind

\* The squares that hold handle h.
SquaresOf(m, h) == {c \in DOMAIN m : m[c] = h}

\* The number of times h occurs in the sequence s.
Count(s, h) == Cardinality({i \in 1..Len(s) : s[i] = h})

\* C1: a registration of a free square, or a move from an occupied square to
\* a free one, never ends in the coordinator's fault, installs the piece at
\* the target and overwrites no entry of another square: every entry but the
\* source of the move is kept, and the number of occupied squares grows by
\* one (registration) or stays (move).
C1_ContractKeepsEntries ==
  [][ \A c \in Squares :
        ( /\ pieces[c] = Nil
          /\ \/ Dequeues("bopNewPiece") /\ bmsg'.coords = c
             \/ Dequeues("bopMovePiece") /\ bmsg'.to = c /\ pieces[bmsg'.from] # Nil )
        => /\ bpc' # "panic"
           /\ IF bmsg'.op = "bopNewPiece"
              THEN /\ pieces'[c] = bmsg'.ctrl
                   /\ \A k \in Squares \ {c} : pieces'[k] = pieces[k]
                   /\ Cardinality(Occupied(pieces')) = Cardinality(Occupied(pieces)) + 1
              ELSE /\ pieces'[c] = pieces[bmsg'.from]
                   /\ \A k \in Squares \ {c, bmsg'.from} : pieces'[k] = pieces[k]
                   /\ Cardinality(Occupied(pieces')) = Cardinality(Occupied(pieces))
     ]_vars

\* C1's case: two registrations on distinct squares and a move to the free
\* square have been processed; both pieces hold a square of their own.
C1_Witness ==
  /\ bpc = "move_getType"
  /\ nOps = 3
  /\ pieces[bmsg.to] = bmsg.ctrl
  /\ pieces[bmsg.from] = Nil
  /\ \E k \in Squares : pieces[k] \notin {Nil, bmsg.ctrl}

\* C2: a move from a square that holds handle p to another square leaves no
\* entry at from, p at to, and every other entry as it was.
C2_MoveRekeys ==
  [][ ( /\ Dequeues("bopMovePiece")
        /\ pieces[bmsg'.from] # Nil
        /\ bmsg'.from # bmsg'.to )
      => /\ bpc' # "panic"
         /\ pieces'[bmsg'.from] = Nil
         /\ pieces'[bmsg'.to] = pieces[bmsg'.from]
         /\ \A k \in Squares \ {bmsg'.from, bmsg'.to} : pieces'[k] = pieces[k]
     ]_vars

\* C2's case: a white pawn has been moved from its square to another one.
C2_Witness ==
  /\ bpc = "move_getType"
  /\ bmsg.from # bmsg.to
  /\ pieces[bmsg.from] = Nil
  /\ pieces[bmsg.to] = bmsg.ctrl
  /\ piece[bmsg.ctrl].pt = WhitePawn

\* C3: once the coordinator has processed a position change of a piece (an
\* update handed over by the piece's relay, or a two-endpoint move), the
\* piece's handle is stored under exactly one coordinate.
C3_PositionChangeRekeys ==
  [][ ( /\ bpc = "recv"
        /\ bpc' \in {"new_getType", "move_getType"}
        /\ \/ bmsg'.op = "bopMovePiece"
           \/ \E ch \in Handles : rpc[ch] = "send" /\ rpc'[ch] = "recv" )
      => Cardinality(SquaresOf(pieces', bmsg'.ctrl)) = 1
     ]_vars

\* C4: when runBoard has processed bopDelPiece for a piece, no coordinate maps
\* to that piece's handle.
C4_DeletedPieceIsGone ==
  [][ (bpc = "del_ack" /\ bpc' = "recv") => SquaresOf(pieces', bmsg.ctrl) = {}
     ]_vars

\* C5: after pawns have been registered on distinct squares and clearBoard
\* has returned, the mapping is empty as soon as the coordinator is back at
\* its mailbox; an enumeration requested afterwards yields no handle, and
\* its reply channel is closed.
C5_ClearedBoardIsEmpty ==
  /\ (cl.pc = "cleared" /\ bpc = "recv") => pieces = EmptyBoard
  /\ cl.pc \in {"enum_recv", "enumerated"} => (cl.got = <<>> /\ pieces = EmptyBoard)
  /\ (cl.pc = "enum_recv" /\ bpc = "recv") => cl.closed

\* C5's case: two pawns were registered, cleared, and the enumeration after
\* the clear has ended.
C5_Witness ==
  /\ cl.pc = "enumerated"
  /\ \A h \in Handles : piece[h].pc = "dead"

\* C6: while and after runBoard serves bopGetAllPieces, the handles received
\* so far together with those of the entries still to visit are the handles
\* of the mapping as it was when the request was dequeued, one per occupied
\* coordinate; the mapping does not change during the enumeration; the reply
\* channel is closed only after the last handle, and nothing is sent after.
C6_EnumerationIsSnapshot ==
  /\ bpc = "enum" => (pieces = enumSnap /\ Receiving /\ ~cl.closed)
  /\ Receiving =>
       /\ \A h \in Handles :
            Count(cl.got, h) + Cardinality({c \in iter : enumSnap[c] = h})
              = Cardinality(SquaresOf(enumSnap, h))
       /\ Len(cl.got) + Cardinality(iter) = Cardinality(Occupied(enumSnap))
       /\ cl.closed => (iter = {} /\ bpc # "enum")

\* C6's case: an enumeration of a board with two entries has ended.
C6_Witness ==
  /\ Receiving
  /\ cl.closed
  /\ Len(cl.got) = 2

\* The acknowledgment of popKill sent to piece h has been observed.
Killed(h) ==
  /\ piece[h].pc \in {"defer", "dead"}
  /\ ~(bpc = "del_ack" /\ bmsg.ctrl = h)

\* C7: after the acknowledgment of a piece's popKill has been observed, the
\* piece sends no further notification and its relay eventually exits.
C7_RelayExitsAfterKill ==
  \A h \in Handles :
    /\ [](Killed(h) => piece[h].pc # "notify")
    /\ (Killed(h) ~> (rpc[h] = "exit" \/ ~Running))

\* C8: a move whose from square holds no piece leaves the mapping unchanged
\* and the coordinator goes on with its mailbox.
C8_MoveFromEmptyIsRecoverable ==
  [][ (Dequeues("bopMovePiece") /\ pieces[bmsg'.from] = Nil)
      => (pieces' = pieces /\ bpc' # "panic")
     ]_vars

\* C9: a message that would install a handle at a coordinate that holds a
\* piece (a registration, a relayed update, the to side of the move of
\* another piece) is a fatal contract violation, and the entry is not
\* overwritten.
C9_OccupiedTargetIsFatal ==
  [][ \A c \in Squares :
        ( /\ pieces[c] # Nil
          /\ \/ Dequeues("bopNewPiece") /\ bmsg'.coords = c
             \/ /\ Dequeues("bopMovePiece")
                /\ bmsg'.to = c
                /\ pieces[bmsg'.from] # pieces[c] )
        => (bpc' = "panic" /\ pieces' = pieces)
     ]_vars

\* C10: a pair of legal coordinates formatted with String and parsed again
\* with parseMoveOp (coords.Scan) parses without error to the same pair.
C10_RoundTrip ==
  rt.pc = "parsed" =>
    /\ ~rt.res.err
    /\ rt.res.op.from = rt.from
    /\ rt.res.op.to = rt.to

\* C11: runBoard closes done at most once, and only when its mailbox is
\* closed and it stands between two messages, every message taken before
\* fully processed; once the mailbox is closed and the coordinator is back at
\* it with no exchange outstanding, done is eventually closed (unless a
\* panic ends the process).
C11_DoneAfterDrain ==
  /\ [](done <= 1)
  /\ [](done = 1 => (boardc = "closed" /\ bpc = "exit" /\ bmsg = NoMsg))
  /\ [][done' # done =>
         (boardc = "closed" /\ bpc = "recv" /\ bmsg = NoMsg /\ iter = {})]_vars
  /\ ((boardc = "closed" /\ bpc = "recv") ~> (done = 1 \/ ~Running))

\* C11's case: done has been closed while the board holds a piece that was
\* moved or given another position after its registration.
C11_Witness ==
  /\ done = 1
  /\ Running
  /\ \E c \in Squares : pieces[c] # Nil /\ last[pieces[c]].xy # c

\* The acknowledgment of popKill is observable: piece h has run close(t).
Acked(h) == piece[h].pc \in {"defer", "dead"}

\* C12: when the acknowledgment of a popKill is observable, the subscriber
\* channel of the piece, if it has one, is closed already; and the piece takes
\* no further message from its mailbox.
C12_SubscriberClosedBeforeAck ==
  /\ [](\A h \in Handles :
          (Acked(h) /\ piece[h].movechan # Nil) => Closed(piece[h].movechan))
  /\ [][\A h \in Handles : Acked(h) => piece'[h].pc \in {"defer", "dead", "panic"}]_vars

\* The positions of runBoard within case bopDelPiece.
DelSteps == {"del_getCoords", "del_coords", "del_kill", "del_ack"}

\* C13: while runBoard processes bopDelPiece(p) it sends popGetCoords to p,
\* takes p's answer, sends popKill to p, waits for the acknowledgment and only
\* then deletes the entry at the answered coordinate; the mapping is not
\* touched before, and no sender gets a message into the coordinator's
\* mailbox in between.
C13_DeleteInOrder ==
  [][ LET p == bmsg.ctrl IN
      /\ Dequeues("bopDelPiece") => (bpc' = "del_getCoords" /\ pieces' = pieces)
      /\ (bpc \in DelSteps /\ bpc' # bpc) =>
            /\ bpc = "del_getCoords" =>
                  (bpc' = "del_coords" /\ piece'[p].pc = "replyCoords")
            /\ bpc = "del_coords" =>
                  (bpc' = "del_kill" /\ bmsg'.coords = piece[p].xy)
            /\ bpc = "del_kill" => (bpc' = "del_ack" /\ Acked(p)')
            /\ bpc = "del_ack" =>
                  (bpc' = "recv" /\ Acked(p) /\ pieces' = DeleteEntry(pieces, bmsg.coords))
            /\ bpc # "del_ack" =>
                  (pieces' = pieces /\ bmsg'.op = "bopDelPiece" /\ bmsg'.ctrl = p)
      /\ bpc \in DelSteps =>
            /\ bpc' = bpc => (pieces' = pieces /\ bmsg' = bmsg)
            /\ \A ch \in Handles : rpc[ch] = "send" => rpc'[ch] = "send"
            /\ cl.pc \in {"add_newPiece", "clear_del"} => cl' = cl
    ]_vars

\* C13's case: a piece has been deleted and has terminated while the relay
\* of another piece was waiting at the coordinator's mailbox with an update.
C13_Witness ==
  /\ bpc = "recv"
  /\ \E h \in Handles :
       /\ piece[h].pc = "dead"
       /\ SquaresOf(pieces, h) = {}
       /\ \E g \in Handles \ {h} : rpc[g] = "send"

\* C14: a piece takes one message at a time; the coordinate it answers to
\* popGetCoords is that of the last popSetCoords sent to it before, the type
\* it answers to popGetType that of the last popSetType; an answer is one
\* value followed by the close of the reply channel, after which the piece
\* is back at its mailbox.
C14_RepliesFollowReceiptOrder ==
  /\ [](\A h \in Handles :
          /\ piece[h].pc = "replyCoords" => piece[h].xy = last[h].xy
          /\ piece[h].pc = "replyType" => piece[h].pt = last[h].pt)
  /\ [][\A h \in Handles :
          /\ (piece[h].pc = "replyCoords" /\ piece'[h] # piece[h]) =>
                /\ bpc = "del_coords" /\ bpc' = "del_kill"
                /\ bmsg'.coords = last[h].xy
                /\ piece'[h].pc = "recv"
          /\ (piece[h].pc = "replyType" /\ piece'[h] # piece[h]) =>
                /\ bpc \in {"new_type", "move_type"} /\ bpc' = "recv"
                /\ piece'[h].pc = "recv"
          /\ last'[h] # last[h] => piece[h].pc \in {"unborn", "recv", "defer"}
        ]_vars

\* C14's case: a piece registered on one square was sent another coordinate
\* later and has answered popGetCoords with the later one.
C14_Witness ==
  /\ bpc = "del_kill"
  /\ bmsg.coords = last[bmsg.ctrl].xy
  /\ pieces[bmsg.coords] # bmsg.ctrl
  /\ SquaresOf(pieces, bmsg.ctrl) # {}
  /\ piece[bmsg.ctrl].pt = WhitePawn

\* C15: a piece stands at the send of a notification exactly when a
\* popSetCoords it took while a subscriber was registered calls for one, and
\* the notification carries that coordinate to that subscriber; a channel
\* receives a coordinate only in the step that settles such a notification
\* for it, and no other channel receives anything in that step.  So a
\* popSetCoords taken without subscriber is never notified, and a replaced
\* subscriber receives nothing further.
C15_OneNotificationPerSetCoords ==
  /\ [](\A h \in Handles :
          /\ piece[h].pc = "notify" <=> owed[h] # NoNotification
          /\ piece[h].pc = "notify" =>
                (owed[h].ch = piece[h].movechan /\ owed[h].xy = last[h].xy))
  /\ [][ (\A ch \in Handles :
            (rpc[ch] = "recv" /\ rpc'[ch] = "send") =>
              \E h \in Handles :
                /\ owed[h] = [ch |-> ch, xy |-> rxy'[ch]]
                /\ owed'[h] = NoNotification
                /\ piece[h].movechan = ch
                /\ \A c2 \in Handles \ {ch} : rpc'[c2] = rpc[c2] /\ rxy'[c2] = rxy[c2])
         /\
         (\A g \in Handles :
            (owed[g] # NoNotification /\ owed'[g] # owed[g]) =>
              /\ owed'[g] = NoNotification
              /\ piece'[g].pc = "recv"
              /\ IF owed[g].ch = Spare
                 THEN rpc' = rpc /\ rxy' = rxy
                 ELSE rpc[owed[g].ch] = "recv" /\ rpc'[owed[g].ch] = "send")
        ]_vars

\* C15's case: a piece whose relay was replaced by the client's own channel
\* has taken a popSetCoords and stands at the send of the notification on the
\* client's channel, while its relay has received nothing.
C15_Witness ==
  \E h \in Handles :
    /\ piece[h].movechan = Spare
    /\ piece[h].pc = "notify"
    /\ rpc[h] = "recv"
    /\ pending[h] = <<>>
    /\ \E c \in Squares : pieces[c] = h /\ last[h].xy # c

\* C16: the updates for piece p that the coordinator takes from p's relay
\* are the notifications p sent, in the order p sent them, tagged with p's
\* handle: the relay holds an update exactly while a notification sent to it
\* has not reached the coordinator, each message the relay gets into the
\* mailbox is the oldest such notification with the handle p, and a
\* notification leaves the relay in no other way.
C16_RelayForwardsInOrder ==
  /\ [](\A ch \in Handles :
          /\ rpc[ch] = "send" <=> pending[ch] # <<>>
          /\ rpc[ch] = "send" => rxy[ch] = Head(pending[ch]))
  /\ [][\A ch \in Handles :
          /\ (rpc[ch] = "send" /\ rpc'[ch] # "send") =>
                /\ Dequeues("bopNewPiece")
                /\ bmsg'.coords = Head(pending[ch])
                /\ bmsg'.ctrl = ch
                /\ pending'[ch] = Tail(pending[ch])
          /\ pending'[ch] # pending[ch] =>
                \/ rpc[ch] = "send" /\ rpc'[ch] = "recv"
                \/ /\ piece[ch].pc = "notify"
                   /\ pending'[ch] = Append(pending[ch], last[ch].xy)
        ]_vars

\* C16's case: the relay of a piece has forwarded two updates, the second of
\* which the coordinator has just taken.
C16_Witness ==
  \E h \in Handles :
    /\ bpc = "new_getType"
    /\ cl.pc = "idle"
    /\ bmsg.ctrl = h
    /\ bmsg.coords = last[h].xy
    /\ Cardinality(SquaresOf(pieces, h)) = 3

\* clearBoard has just been started by a client with nothing else under way:
\* the request is dequeued and no handle sent yet, every piece of the mapping
\* is live and at its mailbox, and no relay holds an update.
ClearStarts ==
  /\ cl.pc = "clear_recv"
  /\ cl.got = <<>>
  /\ bpc = "enum"
  /\ iter = Occupied(pieces)
  /\ \A c \in Occupied(pieces) : Live(pieces[c]) /\ piece[pieces[c]].pc = "recv"
  /\ \A h \in Handles : rpc[h] # "send"

\* clearBoard has returned and the coordinator has completed what it sent.
ClearIsOver == cl.pc \notin {"clear_recv", "clear_del"} /\ bpc = "recv"

\* C17: clearBoard sends its first bopDelPiece only after the enumeration has
\* been received in full and its channel closed; and a clearBoard started
\* with nothing else under way on a board of live pieces returns, with every
\* bopDelPiece completed by the coordinator (the client issuing a further
\* operation afterwards, or a panic, ends the obligation).
C17_ClearBoardReturns ==
  /\ [](cl.pc = "clear_del" => (iter = {} /\ bpc # "enum"))
  /\ \A n \in 0..MaxOps :
       (ClearStarts /\ nOps = n) ~> (ClearIsOver \/ nOps > n \/ ~Running)

\* The coordinator stands at the send of a request to piece h.
BoardAsks(h) ==
  /\ bpc \in {"new_getType", "move_getType", "del_getCoords", "del_kill"}
  /\ bmsg.ctrl = h

\* The coordinator waits to send to piece h, h waits to send to its relay,
\* and the relay waits to send to the coordinator.
WaitCycle(h) ==
  /\ BoardAsks(h)
  /\ piece[h].pc = "notify"
  /\ piece[h].movechan \in Handles
  /\ rpc[piece[h].movechan] = "send"

\* C18: the coordinator, a piece and the piece's relay never wait for each
\* other in a cycle, and every bopDelPiece the coordinator has dequeued is
\* eventually completed (or a panic ends the process).
C18_NoWaitCycle ==
  /\ [](\A h \in Handles : ~WaitCycle(h))
  /\ (bpc \in DelSteps ~> (bpc = "recv" \/ ~Running))

\* C19: unless the coordinator stands within case bopDelPiece, every handle of
\* the mapping is that of a piece that has not terminated; and the
\* coordinator never stands at the send of a request to a terminated piece.
C19_NoDeadPieceOnBoard ==
  /\ bpc \notin DelSteps => \A c \in Occupied(pieces) : ~Acked(pieces[c])
  /\ \A h \in Handles : BoardAsks(h) => ~Acked(h)

\* No message is in flight and the coordinator is idle: the coordinator and
\* every piece stand at their mailboxes, no relay holds an update, and the
\* client is between two operations.
Quiescent ==
  /\ bpc = "recv"
  /\ cl.pc = "idle"
  /\ \A h \in Handles : piece[h].pc \in {"unborn", "recv", "dead"}
  /\ \A h \in Handles : rpc[h] # "send"

\* C20: in a quiescent state the mapping sends c to p exactly when p is a
\* live piece that addPiece has returned and whose own coordinate is c.
C20_BoardAgreesWithPieces ==
  Quiescent =>
    \A c \in Squares, p \in Handles :
      pieces[c] = p <=> (p \in Returned /\ Live(p) /\ piece[p].xy = c)

\* C21: while runBoard processes bopDelPiece(p), from the dequeue to the
\* delete, every coordinate that maps to another piece q keeps mapping to q,
\* and no other piece is terminated.
C21_DeleteTouchesOnlyItsPiece ==
  [][ (bpc \in DelSteps) =>
        \A q \in Handles \ {bmsg.ctrl} :
          /\ \A c \in Squares : pieces[c] = q => pieces'[c] = q
          /\ (~Acked(q)) => (~(Acked(q)'))
    ]_vars

====
